---- MODULE Spec2Model ----
(***************************************************************************)
(* Model of package ccrd (apis/apiextensions/v1alpha1/ccrd/crd.go): the    *)
(* derivation of the composite and the claim CustomResourceDefinition from *)
(* a CompositeResourceDefinition, claim name validation, the extraction of *)
(* the spec properties of a validation schema, and IsEstablished.          *)
(*                                                                         *)
(* Go values are modelled as follows.                                      *)
(*   - a pointer is a sequence of length 0 (nil) or 1;                     *)
(*   - an error is the chain of its messages, outermost first; <<>> is the *)
(*     nil error; a message is the tuple of its format and arguments;      *)
(*   - a map is a function on a set of strings; <<>> is the nil/empty map; *)
(*   - a slice is a header [arr, len, cap] onto a backing array held in    *)
(*     the variable heap, so that append writes in place when the          *)
(*     capacity allows and two headers may share one array.                *)
(***************************************************************************)
EXTENDS Integers, Sequences, FiniteSets, TLC

VARIABLES
    xrd,      \* the CompositeResourceDefinition every call is handed
    heap,     \* backing arrays of the category and printer column slices
    results,  \* what each derivation call returned, oldest first
    verr,     \* what a direct validateClaimNames(xrd) call returned
    est       \* input and result of the last IsEstablished call

vars == <<xrd, heap, results, verr, est>>

(***************************************************************************)
(* Bounds of the model.                                                    *)
(***************************************************************************)
MaxVersions == 2
MaxCalls == 2
MaxSpare == 2
MaxConds == 3

(***************************************************************************)
(* Constants of the package.                                               *)
(***************************************************************************)
CategoryClaim == "claim"
CategoryComposite == "composite"

errGetSpecProps == "cannot get spec properties from validation schema"
errParseValidation == "cannot parse validation schema"
errInvalidClaimNames == "invalid resource claim names"
errMissingClaimNames == "missing names"
errFmtConflictingClaimName == "%q conflicts with composite resource name"

ClusterScoped == "Cluster"
NamespaceScoped == "Namespaced"
Established == "Established"
ConditionTrue == "True"
ConditionFalse == "False"
ConditionUnknown == "Unknown"

(***************************************************************************)
(* Errors (github.com/pkg/errors as the package uses it).                  *)
(***************************************************************************)
NoError == <<>>
New(msg) == << <<msg>> >>
Errorf(format, arg) == << <<format, arg>> >>
Wrap(err, msg) == IF err = NoError THEN NoError ELSE << <<msg>> >> \o err

(***************************************************************************)
(* Slices.                                                                 *)
(***************************************************************************)
NilSlice == [arr |-> 0, len |-> 0, cap |-> 0]

Elems(h, s) == IF s.len = 0 THEN <<>> ELSE SubSeq(h[s.arr], 1, s.len)

\* append(s, elems...): in place when the capacity suffices, otherwise into a
\* newly allocated array. No operation of the package appends to a slice it
\* got from append, so the capacity of a new array is taken to be its length.
GoAppend(h, s, elems) ==
    LET n == s.len + Len(elems) IN
    IF n <= s.cap
    THEN [heap  |-> [h EXCEPT ![s.arr] =
                        [j \in 1..s.cap |->
                            IF j > s.len /\ j <= n THEN elems[j - s.len] ELSE @[j]]],
          slice |-> [arr |-> s.arr, len |-> n, cap |-> s.cap]]
    ELSE [heap  |-> Append(h, Elems(h, s) \o elems),
          slice |-> [arr |-> Len(h) + 1, len |-> n, cap |-> n]]

(***************************************************************************)
(* Schema documents. A raw validation schema is a JSON text, modelled by   *)
(* the value it denotes (or JBad when it is not JSON at all).              *)
(***************************************************************************)
JBad == [k |-> "bad"]
JNull == [k |-> "null"]
JStr(s) == [k |-> "str", s |-> s]
JObj(f) == [k |-> "obj", f |-> f]

\* Op applied to the value v: `v0 := v; Op(v0)`.
With(v, Op(_)) == Op(v)

With2(v, w, Op(_, _)) == Op(v, w)

NilMap == <<>>
ZeroSchema == [Type |-> "", Properties |-> NilMap]

\* m overlaid with layer: the effect of `for k, v := range layer { m[k] = v }`.
Overlay(m, layer) ==
    [k \in (DOMAIN m) \cup (DOMAIN layer) |->
        IF k \in DOMAIN layer THEN layer[k] ELSE m[k]]

\* json.Unmarshal(raw, &extv1.JSONSchemaProps{}): a text that is not JSON and
\* a value of the wrong JSON type are errors, null leaves the target as it
\* is, members other than "type" and "properties" do not bear on the result.
RECURSIVE Unmarshal(_)
Unmarshal(v) ==
    CASE v.k = "bad"  -> [err |-> New("json: syntax error"), s |-> ZeroSchema]
      [] v.k = "null" -> [err |-> NoError, s |-> ZeroSchema]
      [] v.k = "str"  -> [err |-> New("json: cannot unmarshal string"), s |-> ZeroSchema]
      [] v.k = "obj"  ->
            LET f    == v.f
                tv   == IF "type" \in DOMAIN f THEN f["type"] ELSE JNull
                pv   == IF "properties" \in DOMAIN f THEN f["properties"] ELSE JNull
                sub  == IF pv.k = "obj"
                        THEN [key \in DOMAIN pv.f |-> Unmarshal(pv.f[key])]
                        ELSE NilMap
                bad  == \/ tv.k \notin {"str", "null"}
                        \/ pv.k \notin {"obj", "null"}
                        \/ \E key \in DOMAIN sub : sub[key].err # NoError
            IN  IF bad
                THEN [err |-> New("json: cannot unmarshal"), s |-> ZeroSchema]
                ELSE [err |-> NoError,
                      s   |-> [Type       |-> IF tv.k = "str" THEN tv.s ELSE "",
                               Properties |-> [key \in DOMAIN sub |-> sub[key].s]]]

getSpecProps(v) ==
    IF v = <<>>
    THEN [props |-> NilMap, err |-> NoError]
    ELSE With(Unmarshal(v[1]), LAMBDA r :
         IF r.err # NoError
         THEN [props |-> NilMap, err |-> Wrap(r.err, errParseValidation)]
         ELSE IF "spec" \notin DOMAIN r.s.Properties
              THEN [props |-> NilMap, err |-> NoError]
              ELSE [props |-> r.s.Properties["spec"].Properties, err |-> NoError])

(***************************************************************************)
(* The fixed tables of the package (schemas.go).                           *)
(***************************************************************************)
Leaf(t) == [Type |-> t, Properties |-> NilMap]

BaseProps ==
    [apiVersion |-> Leaf("string"),
     kind       |-> Leaf("string"),
     metadata   |-> Leaf("object"),
     spec       |-> Leaf("object"),
     status     |-> Leaf("object")]

CompositeResourceSpecProps ==
    [compositionRef |-> Leaf("object"),
     claimRef       |-> Leaf("object"),
     resourceRefs   |-> Leaf("array")]

CompositeResourceClaimSpecProps ==
    [compositionRef |-> Leaf("object"),
     resourceRef    |-> Leaf("object")]

CompositeResourceStatusProps ==
    [conditions |-> Leaf("array")]

CompositeResourcePrinterColumns == <<"READY", "COMPOSITION">>
CompositeResourceClaimPrinterColumns == <<"READY", "CONNECTION-SECRET">>

\* m with the properties of m[key] overlaid with layer: the effect of
\* `for k, v := range layer { m[key].Properties[k] = v }`.
MergeUnder(m, key, layer) ==
    [m EXCEPT ![key] = [Type |-> @.Type, Properties |-> Overlay(@.Properties, layer)]]

(***************************************************************************)
(* validateClaimNames                                                      *)
(***************************************************************************)
\* validateClaimNames with the plural compared before the kind.
validateClaimNames_PluralFirst(d) ==
    IF d.Spec.ClaimNames = <<>>
    THEN New(errMissingClaimNames)
    ELSE LET c == d.Spec.ClaimNames[1]
             p == d.Spec.Names
         IN  IF c.Plural = p.Plural
             THEN Errorf(errFmtConflictingClaimName, c.Plural)
             ELSE IF c.Kind = p.Kind
             THEN Errorf(errFmtConflictingClaimName, c.Kind)
             ELSE IF c.Singular # "" /\ c.Singular = p.Singular
             THEN Errorf(errFmtConflictingClaimName, c.Singular)
             ELSE IF c.ListKind # "" /\ c.ListKind = p.ListKind
             THEN Errorf(errFmtConflictingClaimName, c.ListKind)
             ELSE NoError

validateClaimNames(d) ==
    IF d.Spec.ClaimNames = <<>>
    THEN New(errMissingClaimNames)
    ELSE LET c == d.Spec.ClaimNames[1]
             p == d.Spec.Names
         IN  IF c.Kind = p.Kind
             THEN Errorf(errFmtConflictingClaimName, c.Kind)
             ELSE IF c.Plural = p.Plural
             THEN Errorf(errFmtConflictingClaimName, c.Plural)
             ELSE IF c.Singular # "" /\ c.Singular = p.Singular
             THEN Errorf(errFmtConflictingClaimName, c.Singular)
             ELSE IF c.ListKind # "" /\ c.ListKind = p.ListKind
             THEN Errorf(errFmtConflictingClaimName, c.ListKind)
             ELSE NoError

(***************************************************************************)
(* ForCompositeResource                                                    *)
(***************************************************************************)
OwnerReferenceTo(d) ==
    <<[APIVersion |-> "apiextensions.crossplane.io/v1alpha1",
       Kind       |-> "CompositeResourceDefinition",
       Name       |-> d.Name,
       UID        |-> d.UID,
       Controller |-> TRUE]>>

\* compositeVersion with the caller's properties merged after the standard
\* ones.
compositeVersion_CallerLast(h, vr) ==
    With2(GoAppend(h, vr.AdditionalPrinterColumns, CompositeResourcePrinterColumns),
          getSpecProps(vr.Schema),
          LAMBDA a, p :
        LET p1 == MergeUnder(BaseProps, "spec", CompositeResourceSpecProps)
            p2 == MergeUnder(p1, "spec", p.props)
            p3 == MergeUnder(p2, "status", CompositeResourceStatusProps)
        IN  [heap    |-> a.heap,
             err     |-> Wrap(p.err, errGetSpecProps),
             version |-> [Name                     |-> vr.Name,
                          Served                   |-> vr.Served,
                          Storage                  |-> vr.Referenceable,
                          AdditionalPrinterColumns |-> a.slice,
                          Schema       |-> [OpenAPIV3Schema |-> [Type |-> "object", Properties |-> p3]],
                          Subresources |-> [Status |-> TRUE]]])

\* The body of the loop over xrd.Spec.Versions, for one version vr.
compositeVersion(h, vr) ==
    With2(GoAppend(h, vr.AdditionalPrinterColumns, CompositeResourcePrinterColumns),
          getSpecProps(vr.Schema),
          LAMBDA a, p :
        LET p1 == MergeUnder(BaseProps, "spec", p.props)
            p2 == MergeUnder(p1, "spec", CompositeResourceSpecProps)
            p3 == MergeUnder(p2, "status", CompositeResourceStatusProps)
        IN  [heap    |-> a.heap,
             err     |-> Wrap(p.err, errGetSpecProps),
             version |-> [Name                     |-> vr.Name,
                          Served                   |-> vr.Served,
                          Storage                  |-> vr.Referenceable,
                          AdditionalPrinterColumns |-> a.slice,
                          Schema       |-> [OpenAPIV3Schema |-> [Type |-> "object", Properties |-> p3]],
                          Subresources |-> [Status |-> TRUE]]])

\* compositeVersions going on to the next version when a schema does not
\* parse.
RECURSIVE compositeVersions_SkipFailed(_, _, _, _)
compositeVersions_SkipFailed(h, vs, i, acc) ==
    IF i > Len(vs)
    THEN [heap |-> h, err |-> NoError, versions |-> acc]
    ELSE With(compositeVersion(h, vs[i]), LAMBDA b :
         IF b.err # NoError
         THEN compositeVersions_SkipFailed(b.heap, vs, i + 1, acc)
         ELSE compositeVersions_SkipFailed(b.heap, vs, i + 1, Append(acc, b.version)))

\* The loop over xrd.Spec.Versions from index i on; acc holds the versions
\* built so far. It returns at the first version whose schema does not parse.
RECURSIVE compositeVersions(_, _, _, _)
compositeVersions(h, vs, i, acc) ==
    IF i > Len(vs)
    THEN [heap |-> h, err |-> NoError, versions |-> acc]
    ELSE With(compositeVersion(h, vs[i]), LAMBDA b :
         IF b.err # NoError
         THEN [heap |-> b.heap, err |-> b.err, versions |-> acc]
         ELSE compositeVersions(b.heap, vs, i + 1, Append(acc, b.version)))

\* ForCompositeResource appending the tag of the other variant.
ForCompositeResource_ClaimTag(h, d) ==
    With(GoAppend(h, d.Spec.Names.Categories, <<CategoryClaim>>), LAMBDA c :
    With(compositeVersions(c.heap, d.Spec.Versions, 1, <<>>), LAMBDA r :
        IF r.err # NoError
        THEN [heap |-> r.heap, crd |-> <<>>, err |-> r.err]
        ELSE [heap |-> r.heap,
              err  |-> NoError,
              crd  |-> <<[Name            |-> d.Name,
                          Labels          |-> d.Labels,
                          Annotations     |-> d.Annotations,
                          OwnerReferences |-> OwnerReferenceTo(d),
                          Spec |-> [Scope    |-> ClusterScoped,
                                    Group    |-> d.Spec.Group,
                                    Names    |-> [d.Spec.Names EXCEPT !.Categories = c.slice],
                                    Versions |-> r.versions]]>>]))

ForCompositeResource(h, d) ==
    With(GoAppend(h, d.Spec.Names.Categories, <<CategoryComposite>>), LAMBDA c :
    With(compositeVersions(c.heap, d.Spec.Versions, 1, <<>>), LAMBDA r :
        IF r.err # NoError
        THEN [heap |-> r.heap, crd |-> <<>>, err |-> r.err]
        ELSE [heap |-> r.heap,
              err  |-> NoError,
              crd  |-> <<[Name            |-> d.Name,
                          Labels          |-> d.Labels,
                          Annotations     |-> d.Annotations,
                          OwnerReferences |-> OwnerReferenceTo(d),
                          Spec |-> [Scope    |-> ClusterScoped,
                                    Group    |-> d.Spec.Group,
                                    Names    |-> [d.Spec.Names EXCEPT !.Categories = c.slice],
                                    Versions |-> r.versions]]>>]))

(***************************************************************************)
(* ForCompositeResourceClaim                                               *)
(***************************************************************************)
\* claimVersion with the storage flag taken from the served flag.
claimVersion_StorageFromServed(h, vr) ==
    With2(GoAppend(h, vr.AdditionalPrinterColumns, CompositeResourceClaimPrinterColumns),
          getSpecProps(vr.Schema),
          LAMBDA a, p :
        LET p1 == MergeUnder(BaseProps, "spec", p.props)
            p2 == MergeUnder(p1, "spec", CompositeResourceClaimSpecProps)
            p3 == MergeUnder(p2, "status", CompositeResourceStatusProps)
        IN  [heap    |-> a.heap,
             err     |-> Wrap(p.err, errGetSpecProps),
             version |-> [Name                     |-> vr.Name,
                          Served                   |-> vr.Served,
                          Storage                  |-> vr.Served,
                          AdditionalPrinterColumns |-> a.slice,
                          Schema       |-> [OpenAPIV3Schema |-> [Type |-> "object", Properties |-> p3]],
                          Subresources |-> [Status |-> TRUE]]])

\* The body of the loop over xrd.Spec.Versions, for one version vr.
claimVersion(h, vr) ==
    With2(GoAppend(h, vr.AdditionalPrinterColumns, CompositeResourceClaimPrinterColumns),
          getSpecProps(vr.Schema),
          LAMBDA a, p :
        LET p1 == MergeUnder(BaseProps, "spec", p.props)
            p2 == MergeUnder(p1, "spec", CompositeResourceClaimSpecProps)
            p3 == MergeUnder(p2, "status", CompositeResourceStatusProps)
        IN  [heap    |-> a.heap,
             err     |-> Wrap(p.err, errGetSpecProps),
             version |-> [Name                     |-> vr.Name,
                          Served                   |-> vr.Served,
                          Storage                  |-> vr.Referenceable,
                          AdditionalPrinterColumns |-> a.slice,
                          Schema       |-> [OpenAPIV3Schema |-> [Type |-> "object", Properties |-> p3]],
                          Subresources |-> [Status |-> TRUE]]])

RECURSIVE claimVersions(_, _, _, _)
claimVersions(h, vs, i, acc) ==
    IF i > Len(vs)
    THEN [heap |-> h, err |-> NoError, versions |-> acc]
    ELSE With(claimVersion(h, vs[i]), LAMBDA b :
         IF b.err # NoError
         THEN [heap |-> b.heap, err |-> b.err, versions |-> acc]
         ELSE claimVersions(b.heap, vs, i + 1, Append(acc, b.version)))

\* claimDefinition named after the source definition.
claimDefinition_SourceName(h, d) ==
    With(GoAppend(h, d.Spec.ClaimNames[1].Categories, <<CategoryClaim>>), LAMBDA c :
    With(claimVersions(c.heap, d.Spec.Versions, 1, <<>>), LAMBDA r :
        IF r.err # NoError
        THEN [heap |-> r.heap, crd |-> <<>>, err |-> r.err]
        ELSE [heap |-> r.heap,
              err  |-> NoError,
              crd  |-> <<[Name            |-> d.Name,
                          Labels          |-> d.Labels,
                          Annotations     |-> d.Annotations,
                          OwnerReferences |-> OwnerReferenceTo(d),
                          Spec |-> [Scope    |-> NamespaceScoped,
                                    Group    |-> d.Spec.Group,
                                    Names    |-> [d.Spec.ClaimNames[1] EXCEPT !.Categories = c.slice],
                                    Versions |-> r.versions]]>>]))

\* ForCompositeResourceClaim once the claim names have been validated.
claimDefinition(h, d) ==
    With(GoAppend(h, d.Spec.ClaimNames[1].Categories, <<CategoryClaim>>), LAMBDA c :
    With(claimVersions(c.heap, d.Spec.Versions, 1, <<>>), LAMBDA r :
        IF r.err # NoError
        THEN [heap |-> r.heap, crd |-> <<>>, err |-> r.err]
        ELSE [heap |-> r.heap,
              err  |-> NoError,
              crd  |-> <<[Name            |-> d.Spec.ClaimNames[1].Plural \o "." \o d.Spec.Group,
                          Labels          |-> d.Labels,
                          Annotations     |-> d.Annotations,
                          OwnerReferences |-> OwnerReferenceTo(d),
                          Spec |-> [Scope    |-> NamespaceScoped,
                                    Group    |-> d.Spec.Group,
                                    Names    |-> [d.Spec.ClaimNames[1] EXCEPT !.Categories = c.slice],
                                    Versions |-> r.versions]]>>]))

\* ForCompositeResourceClaim comparing the names only once the versions are
\* built.
ForCompositeResourceClaim_ValidateLast(h, d) ==
    IF d.Spec.ClaimNames = <<>>
    THEN [heap |-> h, crd |-> <<>>, err |-> Wrap(validateClaimNames(d), errInvalidClaimNames)]
    ELSE With2(claimDefinition(h, d), validateClaimNames(d), LAMBDA b, e :
             IF b.err # NoError
             THEN b
             ELSE IF e # NoError
                  THEN [heap |-> b.heap, crd |-> <<>>, err |-> Wrap(e, errInvalidClaimNames)]
                  ELSE b)

ForCompositeResourceClaim(h, d) ==
    With(validateClaimNames(d), LAMBDA e :
        IF e # NoError
        THEN [heap |-> h, crd |-> <<>>, err |-> Wrap(e, errInvalidClaimNames)]
        ELSE claimDefinition(h, d))

(***************************************************************************)
(* IsEstablished                                                           *)
(***************************************************************************)
\* The loop over s.Conditions from index i on.
RECURSIVE establishedFrom(_, _)
establishedFrom(conds, i) ==
    IF i > Len(conds)
    THEN FALSE
    ELSE IF conds[i].Type = Established
         THEN conds[i].Status = ConditionTrue
         ELSE establishedFrom(conds, i + 1)

\* IsEstablished looking for any Established condition of status True.
IsEstablished_Any(s) ==
    \E i \in 1..Len(s.Conditions) :
        s.Conditions[i].Type = Established /\ s.Conditions[i].Status = ConditionTrue

IsEstablished(s) == establishedFrom(s.Conditions, 1)

(***************************************************************************)
(* The definitions the calls are made on.                                  *)
(***************************************************************************)
SeqsUpTo(S, n) == UNION {[1..m -> S] : m \in 0..n}

Backing(elems, spare) == elems \o [j \in 1..spare |-> ""]

SliceOn(a, elems, spare) ==
    IF Len(elems) + spare = 0
    THEN NilSlice
    ELSE [arr |-> a, len |-> Len(elems), cap |-> Len(elems) + spare]

NamesOn(a, n) ==
    [Kind |-> n.Kind, Plural |-> n.Plural, Singular |-> n.Singular,
     ListKind |-> n.ListKind, Categories |-> SliceOn(a, n.cats, n.spare)]

\* The definition described by the primary names n, the optional claim names
\* cn and the versions vs, with the heap its slices live in: array 1 backs
\* the categories of the primary names, array 2 those of the claim names and
\* array 2 + i the printer columns of version i.
Definition(group, n, cn, vs) ==
    [d |-> [Name        |-> n.Plural \o "." \o group,
            UID         |-> "uid-1",
            Labels      |-> [app |-> "x"],
            Annotations |-> [note |-> "y"],
            Spec |-> [Group      |-> group,
                      Names      |-> NamesOn(1, n),
                      ClaimNames |-> IF cn = <<>> THEN <<>> ELSE <<NamesOn(2, cn[1])>>,
                      Versions   |->
                          [i \in 1..Len(vs) |->
                              [Name          |-> vs[i].Name,
                               Served        |-> vs[i].Served,
                               Referenceable |-> vs[i].Referenceable,
                               AdditionalPrinterColumns |-> SliceOn(2 + i, vs[i].cols, vs[i].spare),
                               Schema        |-> vs[i].Schema]]]],
     h |-> <<Backing(n.cats, n.spare),
             IF cn = <<>> THEN <<>> ELSE Backing(cn[1].cats, cn[1].spare)>>
           \o [i \in 1..Len(vs) |-> Backing(vs[i].cols, vs[i].spare)]]

Names(kind, plural, singular, listKind, cats, spare) ==
    [Kind |-> kind, Plural |-> plural, Singular |-> singular,
     ListKind |-> listKind, cats |-> cats, spare |-> spare]

Version(name, served, referenceable, cols, spare, schema) ==
    [Name |-> name, Served |-> served, Referenceable |-> referenceable,
     cols |-> cols, spare |-> spare, Schema |-> schema]

DocSpecFoo ==
    JObj([type |-> JStr("object"),
          properties |-> JObj(
              [spec   |-> JObj([properties |-> JObj([foo |-> JObj([type |-> JStr("string")])])]),
               status |-> JObj([properties |-> JObj([phase |-> JObj([type |-> JStr("string")])])])])])

DocSpecClash ==
    JObj([properties |-> JObj(
              [spec |-> JObj([properties |-> JObj(
                    [compositionRef |-> JObj([type |-> JStr("string")]),
                     resourceRef    |-> JObj([type |-> JStr("string")]),
                     bar |-> JObj([type |-> JStr("object"),
                                   properties |-> JObj([baz |-> JObj([type |-> JStr("integer")])])])])])])])

DocNoSpec ==
    JObj([properties |-> JObj(
              [status |-> JObj([properties |-> JObj([phase |-> JObj([type |-> JStr("string")])])])])])

DocSpecNoProps == JObj([properties |-> JObj([spec |-> JObj([type |-> JStr("object")])])])

DocSpecNotObject == JObj([properties |-> JObj([spec |-> JStr("x")])])

Schemas ==
    {<<>>, <<JBad>>, <<JNull>>, <<JStr("x")>>, <<JObj(<<>>)>>, <<DocNoSpec>>,
     <<DocSpecNoProps>>, <<DocSpecNotObject>>, <<DocSpecFoo>>, <<DocSpecClash>>}

PlainNames == Names("K", "ks", "k", "KL", <<"all">>, 0)
PlainClaim == <<Names("C", "cs", "c", "CL", <<"all">>, 0)>>
PlainVersion == Version("v1", TRUE, TRUE, <<"AGE">>, 0, <<>>)

\* Every way the claim names can stand to the primary names.
NameCases ==
    {Definition(g, Names("K", "ks", s, l, <<>>, 0), cn, <<PlainVersion>>) :
        g \in {"g", "example.org"}, s \in {"", "k"}, l \in {"", "KL"},
        cn \in {<<>>} \cup
               {<<Names(ck, cp, cs, cl, <<>>, 0)>> :
                    ck \in {"K", "C"}, cp \in {"ks", "cs"},
                    cs \in {"", "k", "c"}, cl \in {"", "KL", "CL"}}}

\* Every validation schema, under valid, conflicting and missing claim names.
SchemaCases ==
    {Definition("g", PlainNames, cn, vs) :
        cn \in {<<>>, PlainClaim, <<Names("C", "ks", "c", "CL", <<>>, 0)>>},
        vs \in SeqsUpTo({Version("v1", TRUE, TRUE, <<>>, 0, s) : s \in Schemas}, MaxVersions)}

\* Every name and flag of a version, repeated names and any number of
\* referenceable versions included.
FlagCases ==
    {Definition("g", PlainNames, PlainClaim, vs) :
        vs \in SeqsUpTo({Version(nm, sv, rf, <<>>, 0, <<>>) :
                            nm \in {"v1", "v2"}, sv \in BOOLEAN, rf \in BOOLEAN},
                        MaxVersions)}

\* Every length and spare capacity of the category and printer column slices.
SliceCases ==
    {Definition("g",
                Names("K", "ks", "k", "KL", c1, s1),
                <<Names("C", "cs", "c", "CL", c2, s2)>>,
                <<Version("v1", TRUE, TRUE, c3, s3, <<DocSpecFoo>>)>>) :
        c1 \in {<<>>, <<"all">>}, s1 \in 0..MaxSpare,
        c2 \in {<<>>, <<"all">>}, s2 \in 0..MaxSpare,
        c3 \in {<<>>, <<"AGE">>}, s3 \in 0..MaxSpare}

Definitions == NameCases \cup SchemaCases \cup FlagCases \cup SliceCases

ConditionTypes == {Established, "NamesAccepted"}
ConditionStatuses == {ConditionTrue, ConditionFalse, ConditionUnknown}
Conditions == [Type : ConditionTypes, Status : ConditionStatuses]
Statuses == {[Conditions |-> cs] : cs \in SeqsUpTo(Conditions, MaxConds)}

(***************************************************************************)
(* The calls.                                                              *)
(***************************************************************************)
Init ==
    /\ \E in \in Definitions : xrd = in.d /\ heap = in.h
    /\ results = <<>>
    /\ verr = <<>>
    /\ est = <<>>

\* The call of fn has returned r: the caller holds what it returned, and the
\* backing arrays hold what it wrote.
Returned(fn, r) ==
    /\ heap' = r.heap
    /\ results' = Append(results, [fn |-> fn, crd |-> r.crd, err |-> r.err])

ForCompositeResourceCall ==
    /\ Len(results) < MaxCalls
    /\ Returned("ForCompositeResource", ForCompositeResource(heap, xrd))
    /\ UNCHANGED <<xrd, verr, est>>

ForCompositeResourceClaimCall ==
    /\ Len(results) < MaxCalls
    /\ Returned("ForCompositeResourceClaim", ForCompositeResourceClaim(heap, xrd))
    /\ UNCHANGED <<xrd, verr, est>>

validateClaimNamesCall ==
    /\ verr' = <<validateClaimNames(xrd)>>
    /\ UNCHANGED <<xrd, heap, results, est>>

IsEstablishedCall ==
    /\ \E s \in Statuses : est' = <<[status |-> s, out |-> IsEstablished(s)]>>
    /\ UNCHANGED <<xrd, heap, results, verr>>

Next ==
    \/ ForCompositeResourceCall
    \/ ForCompositeResourceClaimCall
    \/ validateClaimNamesCall

Spec == Init /\ [][Next]_vars

\* IsEstablished on its own: the definition is held fixed.
InitEst ==
    /\ LET in == Definition("g", PlainNames, PlainClaim, <<PlainVersion>>) IN
        xrd = in.d /\ heap = in.h
    /\ results = <<>>
    /\ verr = <<>>
    /\ est = <<>>

NextEst == IsEstablishedCall

SpecEst == InitEst /\ [][NextEst]_vars

TypeOK ==
    /\ Len(results) <= MaxCalls
    /\ Len(verr) <= 1
    /\ Len(est) <= 1

(***************************************************************************)
(* Helpers of the properties.                                              *)
(***************************************************************************)
Range(f) == {f[i] : i \in DOMAIN f}

Min(S) == CHOOSE i \in S : \A j \in S : i <= j

\* The four name checks in the order of the reference check, each with the
\* field it is about and the value it reports.
NameChecks(d) ==
    LET c == d.Spec.ClaimNames[1]
        p == d.Spec.Names
    IN  <<[field |-> "kind", hit |-> c.Kind = p.Kind, value |-> c.Kind],
          [field |-> "plural", hit |-> c.Plural = p.Plural, value |-> c.Plural],
          [field |-> "singular", hit |-> c.Singular # "" /\ c.Singular = p.Singular,
           value |-> c.Singular],
          [field |-> "listKind", hit |-> c.ListKind # "" /\ c.ListKind = p.ListKind,
           value |-> c.ListKind]>>

NameHits(d) == {i \in 1..4 : NameChecks(d)[i].hit}

HasClaimNames(d) == d.Spec.ClaimNames # <<>>

NamesConflict(d) == HasClaimNames(d) /\ NameHits(d) # {}

NamesValid(d) == HasClaimNames(d) /\ NameHits(d) = {}

\* The result of the ordered reference check.
ReferenceCheck(d) ==
    IF ~HasClaimNames(d)
    THEN << <<"missing names">> >>
    ELSE IF NameHits(d) = {}
         THEN <<>>
         ELSE << <<"%q conflicts with composite resource name",
                   NameChecks(d)[Min(NameHits(d))].value>> >>

\* The raw schema of a version does not decode.
FailsToDecode(vr) == vr.Schema # <<>> /\ Unmarshal(vr.Schema[1]).err # NoError

AllDecode(d) == \A i \in 1..Len(d.Spec.Versions) : ~FailsToDecode(d.Spec.Versions[i])

Calls == 1..Len(results)

Succeeded(r) == r.crd # <<>>

\* C1: validateClaimNames returns exactly the result of the ordered reference
\* check: missing names, else a conflict reporting the first of kind, plural,
\* non-empty singular, non-empty listKind that equals the composite's, else ok.
C1_ValidateIsReferenceCheck ==
    verr # <<>> => verr[1] = ReferenceCheck(xrd)

\* Kind and plural both conflict and the error reports the kind.
C1_Witness ==
    /\ verr # <<>>
    /\ HasClaimNames(xrd)
    /\ {1, 2} \subseteq NameHits(xrd)
    /\ xrd.Spec.ClaimNames[1].Singular = ""
    /\ xrd.Spec.Names.Singular = ""
    /\ verr[1] = << <<errFmtConflictingClaimName, "K">> >>

\* C2: ForCompositeResourceClaim validates the names before it parses any
\* schema: with missing or conflicting claim names it returns no definition
\* and the validation error wrapped as "invalid resource claim names",
\* whatever the version schemas hold.
C2_ValidationFirst ==
    \A c \in Calls :
        (results[c].fn = "ForCompositeResourceClaim" /\ ~NamesValid(xrd))
            => /\ results[c].crd = <<>>
               /\ results[c].err = << <<"invalid resource claim names">> >> \o ReferenceCheck(xrd)

\* Conflicting names and a schema that does not decode.
C2_Witness ==
    \E c \in Calls :
        /\ results[c].fn = "ForCompositeResourceClaim"
        /\ NamesConflict(xrd)
        /\ ~AllDecode(xrd)
        /\ results[c].err[1] = <<errInvalidClaimNames>>

\* C3: a NameConflict error carries the name of the offending field (kind,
\* plural, singular or listKind) as well as the offending value.
C3_ConflictNamesField ==
    (verr # <<>> /\ NamesConflict(xrd))
        => \E m \in Range(verr[1]) :
              /\ NameChecks(xrd)[Min(NameHits(xrd))].field \in Range(m)
              /\ NameChecks(xrd)[Min(NameHits(xrd))].value \in Range(m)

\* The member of the JSON object v named key, or null.
Member(v, key) ==
    IF v.k = "obj" /\ key \in DOMAIN v.f THEN v.f[key] ELSE JNull

\* The schema node a JSON value of a schema that decodes denotes.
RECURSIVE NodeOf(_)
NodeOf(v) ==
    [Type       |-> IF Member(v, "type").k = "str" THEN Member(v, "type").s ELSE "",
     Properties |-> IF Member(v, "properties").k = "obj"
                    THEN [key \in DOMAIN Member(v, "properties").f |->
                              NodeOf(Member(v, "properties").f[key])]
                    ELSE <<>>]

\* The version has no validation schema, or its schema has no "spec" property.
NoSpecProperty(vr) ==
    \/ vr.Schema = <<>>
    \/ Member(Member(vr.Schema[1], "properties"), "spec") = JNull

\* The subtree at properties.spec.properties of the version's schema.
CallerLayer(vr) ==
    IF NoSpecProperty(vr)
    THEN <<>>
    ELSE NodeOf(Member(Member(vr.Schema[1], "properties"), "spec")).Properties

StandardSpecLayer(fn) ==
    IF fn = "ForCompositeResource"
    THEN CompositeResourceSpecProps
    ELSE CompositeResourceClaimSpecProps

Layered3(base, caller, standard) ==
    [k \in (DOMAIN base) \cup (DOMAIN caller) \cup (DOMAIN standard) |->
        IF k \in DOMAIN standard THEN standard[k]
        ELSE IF k \in DOMAIN caller THEN caller[k]
        ELSE base[k]]

OutProps(r, i) == r.crd[1].Spec.Versions[i].Schema.OpenAPIV3Schema.Properties

\* C4: in every version of a returned definition the "spec" properties are
\* the base spec properties, the caller's spec properties and the standard
\* spec properties of the variant, the later layer winning at a shared key;
\* the "status" properties are the base status properties overlaid with the
\* standard status properties; no caller spec property appears under
\* "status". The caller's layer is empty, and the schema raises no error,
\* when the version has no schema or its schema has no "spec" property.
C4_LayeredSchema ==
    \A c \in Calls :
        LET r == results[c] IN
        /\ Succeeded(r) =>
              \A i \in 1..Len(r.crd[1].Spec.Versions) :
                  LET vr == xrd.Spec.Versions[i] IN
                  /\ OutProps(r, i)["spec"].Properties =
                        Layered3(BaseProps["spec"].Properties, CallerLayer(vr),
                                 StandardSpecLayer(r.fn))
                  /\ OutProps(r, i)["status"].Properties =
                        Layered3(BaseProps["status"].Properties, <<>>,
                                 CompositeResourceStatusProps)
                  /\ \A k \in DOMAIN CallerLayer(vr) :
                        k \notin DOMAIN OutProps(r, i)["status"].Properties
                  /\ DOMAIN OutProps(r, i) = DOMAIN BaseProps
        /\ ( /\ r.fn = "ForCompositeResource" \/ NamesValid(xrd)
             /\ \A i \in 1..Len(xrd.Spec.Versions) :
                    \/ xrd.Spec.Versions[i].Schema = <<>>
                    \/ /\ ~FailsToDecode(xrd.Spec.Versions[i])
                       /\ NoSpecProperty(xrd.Spec.Versions[i]) )
           => r.err = NoError

\* A caller property and a standard property share a key, beside a caller
\* property of its own key with a nested property.
C4_Witness ==
    \E c \in Calls :
        /\ Succeeded(results[c])
        /\ Len(xrd.Spec.Versions) = 2
        /\ xrd.Spec.Versions[1].Schema = <<DocSpecClash>>
        /\ xrd.Spec.Versions[2].Schema = <<DocNoSpec>>
        /\ OutProps(results[c], 1)["spec"].Properties["compositionRef"].Type = "object"
        /\ OutProps(results[c], 1)["spec"].Properties["bar"].Properties["baz"].Type = "integer"
        /\ "phase" \notin DOMAIN OutProps(results[c], 2)["status"].Properties

GetSpecPropsFailure(err) ==
    /\ Len(err) = 3
    /\ err[1] = <<"cannot get spec properties from validation schema">>
    /\ err[2] = <<"cannot parse validation schema">>

\* C5 as stated: when the schema of any version does not decode, both
\* functions return no definition and the decode failure wrapped as "cannot
\* get spec properties from validation schema".
C5_DecodeFailureAborts ==
    \A c \in Calls :
        ~AllDecode(xrd)
            => /\ results[c].crd = <<>>
               /\ GetSpecPropsFailure(results[c].err)

\* C5 amended: when the schema of any version does not decode, both
\* functions return no definition; ForCompositeResource, and
\* ForCompositeResourceClaim when the claim names are valid, return the
\* decode failure wrapped as "cannot get spec properties from validation
\* schema"; ForCompositeResourceClaim with missing or conflicting claim names
\* returns the "invalid resource claim names" error instead.
C5_DecodeFailureAbortsAfterValidation ==
    \A c \in Calls :
        ~AllDecode(xrd)
            => /\ results[c].crd = <<>>
               /\ IF results[c].fn = "ForCompositeResource" \/ NamesValid(xrd)
                  THEN GetSpecPropsFailure(results[c].err)
                  ELSE results[c].err[1] = <<"invalid resource claim names">>

\* The first version decodes, the second does not, for each function.
C5_Witness ==
    /\ Len(xrd.Spec.Versions) = 2
    /\ ~FailsToDecode(xrd.Spec.Versions[1])
    /\ FailsToDecode(xrd.Spec.Versions[2])
    /\ NamesValid(xrd)
    /\ Len(results) = 2
    /\ results[1].fn # results[2].fn
    /\ \A c \in Calls : results[c].crd = <<>> /\ GetSpecPropsFailure(results[c].err)

\* C6: a returned definition has one version for each version of the input,
\* in the same order, with the name and the served flag of the input version,
\* storage set to its referenceable flag and the status subresource enabled;
\* nothing is required of the input's flags and names for the call to succeed.
C6_VersionsProjected ==
    \A c \in Calls :
        LET r == results[c] IN
        /\ Succeeded(r) =>
              /\ Len(r.crd[1].Spec.Versions) = Len(xrd.Spec.Versions)
              /\ \A i \in 1..Len(xrd.Spec.Versions) :
                    /\ r.crd[1].Spec.Versions[i].Name = xrd.Spec.Versions[i].Name
                    /\ r.crd[1].Spec.Versions[i].Served = xrd.Spec.Versions[i].Served
                    /\ r.crd[1].Spec.Versions[i].Storage = xrd.Spec.Versions[i].Referenceable
                    /\ r.crd[1].Spec.Versions[i].Subresources.Status
        /\ ((r.fn = "ForCompositeResource" \/ NamesValid(xrd)) /\ AllDecode(xrd))
              => Succeeded(r)

\* Two versions of one name, the first served and not referenceable, the
\* second referenceable and not served.
C6_Witness ==
    \E c \in Calls :
        /\ Succeeded(results[c])
        /\ Len(xrd.Spec.Versions) = 2
        /\ xrd.Spec.Versions[1].Name = xrd.Spec.Versions[2].Name
        /\ xrd.Spec.Versions[1].Served /\ ~xrd.Spec.Versions[1].Referenceable
        /\ ~xrd.Spec.Versions[2].Served /\ xrd.Spec.Versions[2].Referenceable
        /\ ~results[c].crd[1].Spec.Versions[1].Storage
        /\ results[c].crd[1].Spec.Versions[2].Storage

\* The established condition, as the claim C7 reads the list.
SomeEstablishedTrue(conds) ==
    \E i \in 1..Len(conds) : conds[i].Type = "Established" /\ conds[i].Status = "True"

FirstEstablishedTrue(conds) ==
    \E i \in 1..Len(conds) :
        /\ conds[i].Type = "Established"
        /\ conds[i].Status = "True"
        /\ \A j \in 1..(i - 1) : conds[j].Type # "Established"

\* C7 as stated: IsEstablished is true for every list that holds an
\* Established condition of status True, and false for every other list.
C7_TrueIffSomeEstablishedTrue ==
    est # <<>> => (est[1].out <=> SomeEstablishedTrue(est[1].status.Conditions))

\* C7 amended: IsEstablished is true exactly for the lists whose first
\* condition of type Established has status True, wherever that condition
\* stands and whatever conditions of other types the list holds.
C7_TrueIffFirstEstablishedTrue ==
    est # <<>> => (est[1].out <=> FirstEstablishedTrue(est[1].status.Conditions))

\* The Established condition stands last, behind conditions of another type.
C7_Witness ==
    /\ est # <<>>
    /\ est[1].out
    /\ Len(est[1].status.Conditions) = 3
    /\ est[1].status.Conditions[1].Type # Established
    /\ est[1].status.Conditions[2].Type # Established
    /\ est[1].status.Conditions[3] = [Type |-> Established, Status |-> ConditionTrue]

VariantTag(fn) == IF fn = "ForCompositeResource" THEN "composite" ELSE "claim"

VariantColumns(fn) ==
    IF fn = "ForCompositeResource"
    THEN CompositeResourcePrinterColumns
    ELSE CompositeResourceClaimPrinterColumns

SourceNames(fn) ==
    IF fn = "ForCompositeResource" THEN xrd.Spec.Names ELSE xrd.Spec.ClaimNames[1]

\* C8: the categories of the definition a call returns are the categories of
\* the name set it derives from, in their order, followed by the one tag of
\* the variant.
C8_CategoriesTagged ==
    (results # <<>> /\ Succeeded(results[Len(results)])) =>
        LET r == results[Len(results)] IN
        Elems(heap, r.crd[1].Spec.Names.Categories) =
            Elems(heap, SourceNames(r.fn).Categories) \o <<VariantTag(r.fn)>>

\* Each variant has returned its definition from caller categories.
C8_Witness ==
    /\ Len(results) = 2
    /\ results[1].fn = "ForCompositeResource"
    /\ results[2].fn = "ForCompositeResourceClaim"
    /\ Succeeded(results[1]) /\ Succeeded(results[2])
    /\ Elems(heap, results[1].crd[1].Spec.Names.Categories) = <<"all", "composite">>
    /\ Elems(heap, results[2].crd[1].Spec.Names.Categories) = <<"all", "claim">>

NameSetOf(n) ==
    [Kind |-> n.Kind, Plural |-> n.Plural, Singular |-> n.Singular, ListKind |-> n.ListKind]

\* C9: on a definition with valid claim names whose schemas all decode,
\* ForCompositeResourceClaim returns a namespaced definition named
\* <claim plural>.<group> with the claim name set, and ForCompositeResource a
\* cluster scoped definition with the name of the source and its primary
\* name set.
C9_IdentityAndScope ==
    \A c \in Calls :
        LET r == results[c] IN
        (NamesValid(xrd) /\ AllDecode(xrd)) =>
            /\ Succeeded(r)
            /\ r.err = NoError
            /\ r.crd[1].Spec.Group = xrd.Spec.Group
            /\ IF r.fn = "ForCompositeResourceClaim"
               THEN /\ r.crd[1].Spec.Scope = "Namespaced"
                    /\ r.crd[1].Name = xrd.Spec.ClaimNames[1].Plural \o "." \o xrd.Spec.Group
                    /\ NameSetOf(r.crd[1].Spec.Names) = NameSetOf(xrd.Spec.ClaimNames[1])
               ELSE /\ r.crd[1].Spec.Scope = "Cluster"
                    /\ r.crd[1].Name = xrd.Name
                    /\ NameSetOf(r.crd[1].Spec.Names) = NameSetOf(xrd.Spec.Names)

\* Both variants derived from one definition.
C9_Witness ==
    /\ Len(results) = 2
    /\ results[1].fn = "ForCompositeResourceClaim"
    /\ results[2].fn = "ForCompositeResource"
    /\ Succeeded(results[1]) /\ Succeeded(results[2])
    /\ results[1].crd[1].Name = "cs.example.org"
    /\ results[2].crd[1].Name = "ks.example.org"
    /\ results[1].crd[1].Spec.Names.Kind = "C"
    /\ results[2].crd[1].Spec.Names.Kind = "K"

\* C10: after any sequence of calls on one source definition every returned
\* definition still has, in each version, the caller's printer columns
\* followed by the columns of its own variant, and the caller's categories
\* followed by its own tag, whatever the spare capacity of the input slices.
C10_ReturnedDefinitionsKept ==
    \A c \in Calls :
        LET r == results[c] IN
        Succeeded(r) =>
            /\ Elems(heap, r.crd[1].Spec.Names.Categories) =
                  Elems(heap, SourceNames(r.fn).Categories) \o <<VariantTag(r.fn)>>
            /\ \A i \in 1..Len(r.crd[1].Spec.Versions) :
                  Elems(heap, r.crd[1].Spec.Versions[i].AdditionalPrinterColumns) =
                      Elems(heap, xrd.Spec.Versions[i].AdditionalPrinterColumns)
                          \o VariantColumns(r.fn)

====
